---- MODULE Spec2Model ----
(* A model of CLI-proxy-tester (src/main.go): the driver main, the        *)
(* loader loadProxies/stringToProxy, the probers testProxy (one goroutine *)
(* per record), the aggregator handleProxyResult, the unbuffered result   *)
(* channel and the WaitGroup that joins the aggregator with the driver.   *)
(* Strings are sequences of one-character strings, so that splitting,     *)
(* joining and URL parsing are computed and not assumed.                  *)
EXTENDS Integers, Sequences, FiniteSets, Bags, TLC

\* ------------------------------------------------------------------ bounds
MaxLines == 2      \* lines in the proxy file of the concurrent runs
MaxParseLines == 2 \* lines in the proxy file of the loader-only runs
MaxFields == 5     \* colon-delimited fields per line in the loader-only runs

\* ------------------------------------------------------------ text helpers
Letters == {"h", "u", "p"}
Digits == {"1", "8"}

RECURSIVE IndexOf(_, _, _)
\* first position >= i of character c in s, 0 when there is none
IndexOf(s, c, i) ==
    IF i > Len(s) THEN 0
    ELSE IF s[i] = c THEN i
    ELSE IndexOf(s, c, i + 1)

RECURSIVE Split(_, _)
\* strings.Split(s, sep) for a one-character separator
Split(s, sep) ==
    LET k == IndexOf(s, sep, 1) IN
    IF k = 0 THEN <<s>>
    ELSE <<SubSeq(s, 1, k - 1)>> \o Split(SubSeq(s, k + 1, Len(s)), sep)

RECURSIVE Join(_, _)
\* the fields of fs joined by sep
Join(fs, sep) ==
    IF Len(fs) = 0 THEN <<>>
    ELSE IF Len(fs) = 1 THEN fs[1]
    ELSE fs[1] \o <<sep>> \o Join(Tail(fs), sep)

\* a prefix test that compares the lengths only
HasPrefixAny(s, pre) == Len(s) >= Len(pre)

\* strings.HasPrefix
HasPrefix(s, pre) ==
    Len(s) >= Len(pre) /\ SubSeq(s, 1, Len(pre)) = pre

\* ------------------------------------------------------------ Proxy record
Proxy(ip, port, user, pass) ==
    [IP |-> ip, Port |-> port, User |-> user, Pass |-> pass]

\* a raw form that leaves the credentials out
rawStringNoCreds(p) == p.IP \o <<":">> \o p.Port

\* (p *Proxy) rawString
rawString(p) ==
    LET raw == p.IP \o <<":">> \o p.Port IN
    IF p.User # <<>> /\ p.Pass # <<>>
    THEN raw \o <<":">> \o p.User \o <<":">> \o p.Pass
    ELSE raw

\* (p *Proxy) conString
conString(p) ==
    LET raw == p.IP \o <<":">> \o p.Port IN
    IF p.User # <<>> /\ p.Pass # <<>>
    THEN p.User \o <<":">> \o p.Pass \o <<"@">> \o raw
    ELSE raw

\* a parser that takes any line of two or more fields as ip:port
stringToProxyLoose(line) ==
    LET parts == Split(line, ":") IN
    IF Len(parts) = 4
    THEN [proxy |-> Proxy(parts[1], parts[2], parts[3], parts[4]), err |-> FALSE]
    ELSE IF Len(parts) >= 2
    THEN [proxy |-> Proxy(parts[1], parts[2], <<>>, <<>>), err |-> FALSE]
    ELSE [proxy |-> Proxy(<<>>, <<>>, <<>>, <<>>), err |-> TRUE]

\* stringToProxy: err is TRUE when the field count is neither 2 nor 4
stringToProxy(line) ==
    LET parts == Split(line, ":") IN
    IF Len(parts) = 2
    THEN [proxy |-> Proxy(parts[1], parts[2], <<>>, <<>>), err |-> FALSE]
    ELSE IF Len(parts) = 4
    THEN [proxy |-> Proxy(parts[1], parts[2], parts[3], parts[4]), err |-> FALSE]
    ELSE [proxy |-> Proxy(<<>>, <<>>, <<>>, <<>>), err |-> TRUE]

RECURSIVE ScanLines(_, _)
\* the scanner loop of loadProxies: proxies accumulated over the lines
ScanLines(lines, proxies) ==
    IF Len(lines) = 0 THEN proxies
    ELSE LET r == stringToProxy(Head(lines)) IN
         ScanLines(Tail(lines),
                   IF ~r.err THEN Append(proxies, r.proxy) ELSE proxies)

\* loadProxies(filePath) when the file opens
loadProxies(lines) == ScanLines(lines, <<>>)

\* --------------------------------------------------------------- url.Parse
RECURSIVE getScheme(_, _)
\* net/url getScheme as called by url.Parse at testProxy line 61: scans s
\* from position i; kind is "scheme" (s[1..i-1] is the scheme), "none" (no
\* scheme, the whole string is the rest) or "error" (missing scheme)
getScheme(s, i) ==
    IF i > Len(s) THEN [kind |-> "none", scheme |-> <<>>, rest |-> s]
    ELSE IF s[i] \in Letters THEN getScheme(s, i + 1)
    ELSE IF s[i] \in Digits
    THEN IF i = 1 THEN [kind |-> "none", scheme |-> <<>>, rest |-> s]
         ELSE getScheme(s, i + 1)
    ELSE IF s[i] = ":"
    THEN IF i = 1 THEN [kind |-> "error", scheme |-> <<>>, rest |-> <<>>]
         ELSE [kind |-> "scheme", scheme |-> SubSeq(s, 1, i - 1),
               rest |-> SubSeq(s, i + 1, Len(s))]
    ELSE [kind |-> "none", scheme |-> <<>>, rest |-> s]

\* url.Parse(proxy.conString()): a string with a scheme and no leading "/"
\* is an opaque URL with an empty Host; a string without a scheme whose
\* first path segment holds a colon is an error
urlParse(s) ==
    LET g == getScheme(s, 1) IN
    IF g.kind = "error"
    THEN [err |-> TRUE, Scheme |-> <<>>, Opaque |-> <<>>, Host |-> <<>>]
    ELSE IF g.kind = "scheme"
    THEN [err |-> FALSE, Scheme |-> g.scheme, Opaque |-> g.rest, Host |-> <<>>]
    ELSE IF IndexOf(g.rest, ":", 1) # 0
    THEN [err |-> TRUE, Scheme |-> <<>>, Opaque |-> <<>>, Host |-> <<>>]
    ELSE [err |-> FALSE, Scheme |-> <<>>, Opaque |-> <<>>, Host |-> <<>>]

\* http.ProxyURL(proxyURL) of line 62: url.Parse returns a nil URL with its
\* error, and a nil proxy URL makes the transport connect directly
ProxyRoute(proxy) ==
    LET u == urlParse(conString(proxy)) IN
    IF u.err THEN [kind |-> "direct", host |-> <<>>]
    ELSE [kind |-> "proxy", host |-> u.Host]

NoRoute == [kind |-> "none", host |-> <<>>]

\* ------------------------------------------------------------------ inputs
HttpsPrefix == <<"h", "t", "t", "p", "s", ":", "/", "/">>

\* what the user may type at the URL prompt: a well-formed https URL, a URL
\* without the https prefix, and an https URL whose host holds a space
Endpoints ==
    { HttpsPrefix \o <<"h">>,
      <<"h", "t", "t", "p", ":", "/", "/", "h">>,
      HttpsPrefix \o <<" ">> }

\* http.NewRequest("GET", endpoint, nil) fails when the URL does not parse:
\* a space in the host name
NewRequestErr(e) == \E i \in (Len(HttpsPrefix) + 1)..Len(e) : e[i] = " "

\* lines a proxy file of the concurrent runs may hold
InputLines ==
    { <<"1", ":", "8">>,
      <<"1", ":", "8", ":", "u", ":", "p">>,
      <<"1", ":", "8", ":", "u", ":">>,
      <<"1">> }

RECURSIVE SeqsUpTo(_, _)
\* all sequences of at most n elements of S
SeqsUpTo(S, n) ==
    IF n = 0 THEN {<<>>}
    ELSE LET R == SeqsUpTo(S, n - 1) IN
         R \cup {Append(r, x) : r \in {q \in R : Len(q) = n - 1}, x \in S}

InputFiles == SeqsUpTo(InputLines, MaxLines)

\* lines of the loader-only runs: every line of one or two fields, and the
\* line h:h followed by every choice of up to MaxFields - 2 more fields
ParseFields == {<<>>, <<"h">>}
ParseLines ==
    {Join(fs, ":") : fs \in (SeqsUpTo(ParseFields, 2) \ {<<>>})}
    \cup {Join(<< <<"h">>, <<"h">> >> \o fs, ":") :
             fs \in (SeqsUpTo(ParseFields, MaxFields - 2) \ {<<>>})}
ParseFiles == SeqsUpTo(ParseLines, MaxParseLines)

\* what myClient.Do may return: a transport error or a response status.
\* The client takes any three-digit status line, so a status such as 999
\* reaches the caller; an interim 1xx other than 101 is never the final one
TransportErrs == {"timeout", "refused"}
StatusCodes == {101, 200, 399, 403, 999}

\* ProxyTestResult (Speed is a wall-clock measurement and is left out)
ProxyTestResult(proxy, statusCode, success) ==
    [ProxyUsed |-> proxy, StatusCode |-> statusCode, Success |-> success]

NoProxy == Proxy(<<>>, <<>>, <<>>, <<>>)
NoResult == ProxyTestResult(NoProxy, 0, FALSE)

\* ------------------------------------------------------------------- state
VARIABLES
    mpc,          \* main: position of the driver
    endpoint,     \* main: the URL read at the prompt
    file,         \* the lines of the file picked in the dialog
    proxies,      \* main: the records returned by loadProxies
    spawned,      \* main: records of the range loop already given a prober
    wg,           \* WG: the WaitGroup counter
    chClosed,     \* resultChannel: closed or not (the channel is unbuffered)
    hpc,          \* handleProxyResult goroutine: position
    i,            \* handleProxyResult: loop counter
    result,       \* handleProxyResult: the outcome last received
    goodProxies,  \* main: raw forms of working and suspect records
    badProxies,   \* main: raw forms of failed records
    ppc,          \* testProxy goroutines: position of each prober
    proute,       \* testProxy: how the client's transport reaches the target
    perr,         \* testProxy: the error of myClient.Do
    pout,         \* testProxy: the ProxyTestResult to send
    crashed,      \* the process was ended by a panic
    workingFile,  \* lines of working.txt
    failedFile,   \* lines of failed.txt
    written       \* main: the err of each writeArrayToFile call

vars == <<mpc, endpoint, file, proxies, spawned, wg, chClosed, hpc, i, result,
          goodProxies, badProxies, ppc, proute, perr, pout, crashed,
          workingFile, failedFile, written>>

Probers == 1..MaxLines

\* the state at the top of main, with nothing read and no goroutine started
BaseState ==
    /\ proxies = <<>>
    /\ spawned = 0
    /\ chClosed = FALSE
    /\ hpc = "idle"
    /\ i = 0
    /\ result = NoResult
    /\ goodProxies = <<>>
    /\ badProxies = <<>>
    /\ ppc = [p \in Probers |-> "none"]
    /\ proute = [p \in Probers |-> NoRoute]
    /\ perr = [p \in Probers |-> "none"]
    /\ pout = [p \in Probers |-> NoResult]
    /\ crashed = FALSE
    /\ workingFile = <<>>
    /\ failedFile = <<>>
    /\ written = [working |-> "none", failed |-> "none"]

Init ==
    /\ mpc = "start"
    /\ endpoint = <<>>
    /\ file = <<>>
    /\ wg = 0
    /\ BaseState

\* ------------------------------------------------------------------ driver
\* a WaitGroup whose counter is never raised
WGAddNone(w, n) == IF n > 0 THEN w ELSE w + n

\* WG.Add(n)
WGAdd(w, n) == w + n

\* main lines 199-210: make the channel, WG.Add(1)
MainSetup ==
    /\ mpc = "start" /\ ~crashed
    /\ wg' = WGAdd(wg, 1)
    /\ mpc' = "prompt"
    /\ UNCHANGED <<endpoint, file, proxies, spawned, chClosed, hpc, i, result,
                   goodProxies, badProxies, ppc, proute, perr, pout, crashed,
                   workingFile, failedFile, written>>

\* main lines 213-222: read the endpoint, os.Exit(-1) unless it is https
MainReadEndpoint ==
    /\ mpc = "prompt" /\ ~crashed
    /\ \E e \in Endpoints :
        /\ endpoint' = e
        /\ mpc' = IF ~HasPrefix(e, HttpsPrefix) THEN "exit" ELSE "dialog"
    /\ UNCHANGED <<file, proxies, spawned, wg, chClosed, hpc, i, result,
                   goodProxies, badProxies, ppc, proute, perr, pout, crashed,
                   workingFile, failedFile, written>>

\* main lines 225-233: the file dialog; os.Exit(-1) when it is cancelled
MainSelectFile ==
    /\ mpc = "dialog" /\ ~crashed
    /\ \/ /\ mpc' = "exit"
          /\ file' = file
       \/ \E f \in InputFiles :
            /\ file' = f
            /\ mpc' = "load"
    /\ UNCHANGED <<endpoint, proxies, spawned, wg, chClosed, hpc, i, result,
                   goodProxies, badProxies, ppc, proute, perr, pout, crashed,
                   workingFile, failedFile, written>>

\* main lines 236-247 with loadProxies lines 100-124: os.Exit(-1) when the
\* file cannot be opened, else the records of the well-formed lines
MainLoadProxies ==
    /\ mpc = "load" /\ ~crashed
    /\ \/ /\ mpc' = "exit"
          /\ proxies' = proxies
       \/ /\ proxies' = loadProxies(file)
          /\ mpc' = "go_handler"
    /\ UNCHANGED <<endpoint, file, spawned, wg, chClosed, hpc, i, result,
                   goodProxies, badProxies, ppc, proute, perr, pout, crashed,
                   workingFile, failedFile, written>>

\* main lines 251-254: start the goroutine that runs handleProxyResult
MainGoHandler ==
    /\ mpc = "go_handler" /\ ~crashed
    /\ hpc' = "loop"
    /\ mpc' = "spawn"
    /\ UNCHANGED <<endpoint, file, proxies, spawned, wg, chClosed, i, result,
                   goodProxies, badProxies, ppc, proute, perr, pout, crashed,
                   workingFile, failedFile, written>>

\* main lines 257-259: go testProxy(proxy, endpoint, resultChannel)
MainSpawn ==
    /\ mpc = "spawn" /\ ~crashed
    /\ spawned < Len(proxies)
    /\ spawned' = spawned + 1
    /\ ppc' = [ppc EXCEPT ![spawned + 1] = "start"]
    /\ UNCHANGED <<mpc, endpoint, file, proxies, wg, chClosed, hpc, i, result,
                   goodProxies, badProxies, proute, perr, pout, crashed,
                   workingFile, failedFile, written>>

\* main lines 257-262: the range loop is exhausted, the driver calls WG.Wait
MainLoopExit ==
    /\ mpc = "spawn" /\ ~crashed
    /\ spawned = Len(proxies)
    /\ mpc' = "wait"
    /\ UNCHANGED <<endpoint, file, proxies, spawned, wg, chClosed, hpc, i,
                   result, goodProxies, badProxies, ppc, proute, perr, pout,
                   crashed, workingFile, failedFile, written>>

\* main line 262: WG.Wait returns when the counter is zero
MainWait ==
    /\ mpc = "wait" /\ ~crashed
    /\ wg = 0
    /\ mpc' = "write_working"
    /\ UNCHANGED <<endpoint, file, proxies, spawned, wg, chClosed, hpc, i,
                   result, goodProxies, badProxies, ppc, proute, perr, pout,
                   crashed, workingFile, failedFile, written>>

\* a write that starts over after a failure and writes every entry again
writeArrayToFileRetry(old, arr, k) ==
    IF k < Len(arr) THEN old \o SubSeq(arr, 1, k) \o arr
    ELSE old \o arr

\* writeArrayToFile lines 174-195: the lines the file holds afterwards, when
\* the first k entries are written (the open or the write k+1 may fail)
writeArrayToFile(old, arr, k) == old \o SubSeq(arr, 1, k)

\* main lines 265-271: append goodProxies to working.txt, report the outcome
MainWriteWorking ==
    /\ mpc = "write_working" /\ ~crashed
    /\ \E k \in 0..Len(goodProxies), failed \in BOOLEAN :
        /\ (k < Len(goodProxies)) => failed
        /\ failed => k < Len(goodProxies) \/ k = 0
        /\ workingFile' = writeArrayToFile(workingFile, goodProxies, k)
        /\ written' = [written EXCEPT
                          !.working = IF failed THEN "failed" ELSE "ok"]
    /\ mpc' = "write_failed"
    /\ UNCHANGED <<endpoint, file, proxies, spawned, wg, chClosed, hpc, i,
                   result, goodProxies, badProxies, ppc, proute, perr, pout,
                   crashed, failedFile>>

\* main lines 273-283: append badProxies to failed.txt, report, finish
MainWriteFailed ==
    /\ mpc = "write_failed" /\ ~crashed
    /\ \E k \in 0..Len(badProxies), failed \in BOOLEAN :
        /\ (k < Len(badProxies)) => failed
        /\ failed => k < Len(badProxies) \/ k = 0
        /\ failedFile' = writeArrayToFile(failedFile, badProxies, k)
        /\ written' = [written EXCEPT
                          !.failed = IF failed THEN "failed" ELSE "ok"]
    /\ mpc' = "finished"
    /\ UNCHANGED <<endpoint, file, proxies, spawned, wg, chClosed, hpc, i,
                   result, goodProxies, badProxies, ppc, proute, perr, pout,
                   crashed, workingFile>>

\* ----------------------------------------------------------------- probers
\* an outcome in which a timeout is not counted as a failure
DoOutcomeSlow(proxy, err, status) ==
    ProxyTestResult(proxy, IF err = "refused" THEN -1 ELSE status,
                    err \in {"nil", "timeout"})

\* an outcome that does not carry the record the prober was given
DoOutcomeBlank(proxy, err, status) ==
    ProxyTestResult(NoProxy, IF err # "nil" THEN -1 ELSE status, err = "nil")

\* testProxy lines 78-95: the ProxyTestResult built from what myClient.Do
\* returned; err is "nil" or a transport error, status is resp.StatusCode
DoOutcome(proxy, err, status) ==
    ProxyTestResult(proxy, IF err # "nil" THEN -1 ELSE status, err = "nil")

\* testProxy lines 61-76: build the transport and the request; when
\* http.NewRequest fails req is nil and req.Header.Add (line 73) panics,
\* which ends the process
TestProxyBuild(p) ==
    /\ ppc[p] = "start" /\ ~crashed
    /\ proute' = [proute EXCEPT ![p] = ProxyRoute(proxies[p])]
    /\ IF NewRequestErr(endpoint)
       THEN /\ ppc' = [ppc EXCEPT ![p] = "panic"]
            /\ crashed' = TRUE
       ELSE /\ ppc' = [ppc EXCEPT ![p] = "do"]
            /\ crashed' = crashed
    /\ UNCHANGED <<mpc, endpoint, file, proxies, spawned, wg, chClosed, hpc, i,
                   result, goodProxies, badProxies, perr, pout, workingFile,
                   failedFile, written>>

\* testProxy lines 78-92: myClient.Do fails at transport level (a timeout
\* after 10 seconds included)
TestProxyDoErr(p) ==
    /\ ppc[p] = "do" /\ ~crashed
    /\ \E e \in TransportErrs :
        /\ perr' = [perr EXCEPT ![p] = e]
        /\ pout' = [pout EXCEPT ![p] = DoOutcome(proxies[p], e, 0)]
    /\ ppc' = [ppc EXCEPT ![p] = "send"]
    /\ UNCHANGED <<mpc, endpoint, file, proxies, spawned, wg, chClosed, hpc, i,
                   result, goodProxies, badProxies, proute, crashed,
                   workingFile, failedFile, written>>

\* testProxy lines 78-92: myClient.Do returns a response
TestProxyDoResp(p) ==
    /\ ppc[p] = "do" /\ ~crashed
    /\ \E sc \in StatusCodes :
        /\ perr' = [perr EXCEPT ![p] = "nil"]
        /\ pout' = [pout EXCEPT ![p] = DoOutcome(proxies[p], "nil", sc)]
    /\ ppc' = [ppc EXCEPT ![p] = "send"]
    /\ UNCHANGED <<mpc, endpoint, file, proxies, spawned, wg, chClosed, hpc, i,
                   result, goodProxies, badProxies, proute, crashed,
                   workingFile, failedFile, written>>

\* -------------------------------------------------------------- aggregator
\* the loop condition stopping one outcome short
LoopCondShort(n, numOfProxies) == n < numOfProxies - 1

\* the loop condition expecting one outcome too many
LoopCondOver(n, numOfProxies) == n <= numOfProxies

\* handleProxyResult line 150: the loop condition
LoopCond(n, numOfProxies) == n < numOfProxies

\* a classification that counts a non-success status as bad
ClassifySuspectBad(r) ==
    IF r.Success /\ r.StatusCode >= 200 /\ r.StatusCode < 400 THEN "good"
    ELSE "bad"

\* handleProxyResult lines 156-169: the list a received outcome goes to
Classify(r) ==
    IF r.Success /\ r.StatusCode >= 200 /\ r.StatusCode < 400 THEN "good"
    ELSE IF r.StatusCode = -1 THEN "bad"
    ELSE "good"

\* a receive that puts the new entry at the head of its list
HandleRecvPrepend(p) ==
    /\ hpc = "loop" /\ ~crashed
    /\ LoopCond(i, Len(proxies))
    /\ ppc[p] = "send" /\ ~chClosed
    /\ result' = pout[p]
    /\ ppc' = [ppc EXCEPT ![p] = "done"]
    /\ pout' = [pout EXCEPT ![p] = NoResult]
    /\ IF Classify(pout[p]) = "good"
       THEN /\ goodProxies' = <<rawString(pout[p].ProxyUsed)>> \o goodProxies
            /\ badProxies' = badProxies
       ELSE /\ badProxies' = <<rawString(pout[p].ProxyUsed)>> \o badProxies
            /\ goodProxies' = goodProxies
    /\ i' = i + 1
    /\ UNCHANGED <<mpc, endpoint, file, proxies, spawned, wg, chClosed, hpc,
                   proute, perr, crashed, workingFile, failedFile, written>>

\* testProxy line 95 with handleProxyResult lines 150-170: prober p sends
\* on the unbuffered channel, the aggregator receives, classifies, appends;
\* the prober returns and its ProxyTestResult lives on in result only
HandleRecv(p) ==
    /\ hpc = "loop" /\ ~crashed
    /\ LoopCond(i, Len(proxies))
    /\ ppc[p] = "send" /\ ~chClosed
    /\ result' = pout[p]
    /\ ppc' = [ppc EXCEPT ![p] = "done"]
    /\ pout' = [pout EXCEPT ![p] = NoResult]
    /\ IF Classify(pout[p]) = "good"
       THEN /\ goodProxies' = Append(goodProxies, rawString(pout[p].ProxyUsed))
            /\ badProxies' = badProxies
       ELSE /\ badProxies' = Append(badProxies, rawString(pout[p].ProxyUsed))
            /\ goodProxies' = goodProxies
    /\ i' = i + 1
    /\ UNCHANGED <<mpc, endpoint, file, proxies, spawned, wg, chClosed, hpc,
                   proute, perr, crashed, workingFile, failedFile, written>>

\* handleProxyResult lines 150, 171-172: the loop ends, close(c), return
HandleClose ==
    /\ hpc = "loop" /\ ~crashed
    /\ ~LoopCond(i, Len(proxies))
    /\ chClosed' = TRUE
    /\ hpc' = "closed"
    /\ UNCHANGED <<mpc, endpoint, file, proxies, spawned, wg, i, result,
                   goodProxies, badProxies, ppc, proute, perr, pout, crashed,
                   workingFile, failedFile, written>>

\* main line 253: WG.Done() after handleProxyResult returned
HandleWGDone ==
    /\ hpc = "closed" /\ ~crashed
    /\ wg' = WGAdd(wg, -1)
    /\ hpc' = "done"
    /\ UNCHANGED <<mpc, endpoint, file, proxies, spawned, chClosed, i, result,
                   goodProxies, badProxies, ppc, proute, perr, pout, crashed,
                   workingFile, failedFile, written>>

\* ---------------------------------------------------------- specifications
Next ==
    \/ MainSetup
    \/ MainReadEndpoint
    \/ MainSelectFile
    \/ MainLoadProxies
    \/ MainGoHandler
    \/ MainSpawn
    \/ MainLoopExit
    \/ MainWait
    \/ MainWriteWorking
    \/ MainWriteFailed
    \/ \E p \in Probers : TestProxyBuild(p)
    \/ \E p \in Probers : TestProxyDoErr(p)
    \/ \E p \in Probers : TestProxyDoResp(p)
    \/ \E p \in Probers : HandleRecv(p)
    \/ HandleClose
    \/ HandleWGDone

Spec == Init /\ [][Next]_vars

\* every goroutine that can take a step eventually takes one: the Go
\* scheduler is fair, and myClient.Do returns within its 10 second timeout
Fairness ==
    /\ WF_vars(MainGoHandler)
    /\ WF_vars(MainSpawn)
    /\ WF_vars(MainLoopExit)
    /\ WF_vars(MainWait)
    /\ WF_vars(MainWriteWorking)
    /\ WF_vars(MainWriteFailed)
    /\ \A p \in Probers : WF_vars(TestProxyBuild(p))
    /\ \A p \in Probers : WF_vars(TestProxyDoErr(p) \/ TestProxyDoResp(p))
    /\ \A p \in Probers : WF_vars(HandleRecv(p))
    /\ WF_vars(HandleClose)
    /\ WF_vars(HandleWGDone)

FairSpec == Spec /\ Fairness

\* the loader alone: main is about to call loadProxies on a file of
\* arbitrary lines
ParseInit ==
    /\ mpc = "load"
    /\ endpoint \in {e \in Endpoints : HasPrefix(e, HttpsPrefix)}
    /\ file \in ParseFiles
    /\ wg = 1
    /\ BaseState

ParseNext == MainLoadProxies

ParseSpec == ParseInit /\ [][ParseNext]_vars

\* ------------------------------------------------------------- properties
\* outcomes received from the channel so far: an unbuffered send completes
\* exactly when the aggregator receives it
Consumed == Cardinality({p \in Probers : ppc[p] = "done"})

PastWait == {"write_working", "write_failed", "finished"}
HandlerReturned == hpc \in {"closed", "done"}

RECURSIVE CountIn(_, _)
\* occurrences of x in the sequence s
CountIn(s, x) ==
    IF Len(s) = 0 THEN 0
    ELSE (IF Head(s) = x THEN 1 ELSE 0) + CountIn(Tail(s), x)

RawForms(ps) == [k \in 1..Len(ps) |-> rawString(ps[k])]

\* C1: the aggregator returns only after exactly len(proxies) outcomes were
\* received, and len(good)+len(bad) is the number of outcomes received so
\* far, never above len(proxies) and equal to it once the aggregator returned
C1_CountInv ==
    /\ Len(goodProxies) + Len(badProxies) = Consumed
    /\ i = Consumed
    /\ Consumed <= Len(proxies)
    /\ HandlerReturned =>
        /\ Consumed = Len(proxies)
        /\ Len(goodProxies) + Len(badProxies) = Len(proxies)

C1_Witness ==
    /\ hpc = "done"
    /\ Len(proxies) = 2
    /\ Len(goodProxies) = 1
    /\ Len(badProxies) = 1

\* C2: each received outcome is appended to the list that (Success,
\* StatusCode) alone selects: bad when Success is false, good when Success
\* is true, whether the status is in 200..399 or not
C2_Classification ==
    [][i' = i + 1 =>
        LET r == result'
            raw == rawString(r.ProxyUsed)
        IN  /\ ~r.Success =>
                 /\ badProxies' = Append(badProxies, raw)
                 /\ goodProxies' = goodProxies
            /\ (r.Success /\ r.StatusCode >= 200 /\ r.StatusCode <= 399) =>
                 /\ goodProxies' = Append(goodProxies, raw)
                 /\ badProxies' = badProxies
            /\ (r.Success /\ ~(r.StatusCode >= 200 /\ r.StatusCode <= 399)) =>
                 /\ goodProxies' = Append(goodProxies, raw)
                 /\ badProxies' = badProxies]_vars

C2_Witness ==
    /\ i = 2
    /\ result.Success /\ result.StatusCode = 403
    /\ Len(goodProxies) = 1
    /\ Len(badProxies) = 1
    /\ goodProxies[1] = rawString(result.ProxyUsed)

\* C3: once the aggregator returned, good followed by bad holds the raw
\* form of each dispatched record once per record; with two records of
\* which the first timed out and the second got a response, good is the
\* second and bad is the first
C3_ExactlyOnce ==
    HandlerReturned =>
        /\ \A k \in 1..Len(proxies) :
              CountIn(goodProxies \o badProxies, rawString(proxies[k]))
                = CountIn(RawForms(proxies), rawString(proxies[k]))
        /\ Len(goodProxies \o badProxies) = Len(proxies)
        /\ (/\ proxies = <<Proxy(<<"1">>, <<"8">>, <<>>, <<>>),
                           Proxy(<<"1">>, <<"8">>, <<"u">>, <<"p">>)>>
            /\ perr[1] = "timeout"
            /\ perr[2] = "nil") =>
              /\ goodProxies = << <<"1", ":", "8", ":", "u", ":", "p">> >>
              /\ badProxies = << <<"1", ":", "8">> >>

C3_Witness ==
    /\ hpc = "done"
    /\ file = << <<"1", ":", "8">>, <<"1", ":", "8", ":", "u", ":", "p">> >>
    /\ perr[1] = "timeout"
    /\ perr[2] = "nil"
    /\ result.StatusCode = 200
    /\ goodProxies = << <<"1", ":", "8", ":", "u", ":", "p">> >>
    /\ badProxies = << <<"1", ":", "8">> >>

\* C4: the driver is past WG.Wait only when the aggregator has received
\* len(proxies) outcomes and returned
C4_WaitAfterAll ==
    mpc \in PastWait =>
        /\ Consumed = Len(proxies)
        /\ i = Len(proxies)
        /\ hpc = "done"

C4_Witness ==
    /\ mpc = "write_working"
    /\ Len(proxies) = 2
    /\ Consumed = 2

\* C5: under fair scheduling, once the aggregator is started the run ends
\* with every prober finished, the aggregator returned and the driver past
\* its wait and finished, unless a prober dropped its outcome
Terminated ==
    /\ mpc = "finished"
    /\ hpc = "done"
    /\ \A p \in 1..Len(proxies) : ppc[p] = "done"

Dropped == \E p \in Probers : ppc[p] = "panic"

C5_Terminates == (mpc = "go_handler") ~> (Terminated \/ Dropped)

C5_Witness ==
    /\ Terminated
    /\ Len(proxies) = 2
    /\ ~Dropped

C7_RoutedViaOwnProxy ==
    \A p \in Probers :
        ppc[p] \in {"do", "send", "done"} =>
            /\ proute[p].kind = "proxy"
            /\ proute[p].host = proxies[p].IP \o <<":">> \o proxies[p].Port

\* C8: a timeout and an unreachable proxy give the same outcome, Success
\* false and StatusCode -1; the outcome is sent, and on its receipt the
\* record goes to bad and good is left alone
C8_TimeoutFails ==
    [][\A p \in Probers :
        /\ (perr[p] = "none" /\ perr'[p] \in TransportErrs) =>
             /\ ppc'[p] = "send"
             /\ pout'[p] = ProxyTestResult(proxies[p], -1, FALSE)
        /\ (perr[p] \in TransportErrs /\ ppc[p] = "send" /\ ppc'[p] # "send") =>
             /\ ppc'[p] = "done"
             /\ result' = ProxyTestResult(proxies[p], -1, FALSE)
             /\ badProxies' = Append(badProxies, rawString(proxies[p]))
             /\ goodProxies' = goodProxies]_vars

C8_Witness ==
    /\ perr[1] = "timeout" /\ ppc[1] = "done"
    /\ perr[2] = "refused" /\ ppc[2] = "done"
    /\ Len(badProxies) = 2
    /\ goodProxies = <<>>

\* number of colon-delimited fields of a line
FieldCount(line) == CountIn(line, ":") + 1

WellFormed(line) == FieldCount(line) \in {2, 4}

\* C9: the raw forms of the loaded records are the lines of 2 or 4 fields
\* of the file, character for character
C9_RoundTrip ==
    mpc = "go_handler" => RawForms(proxies) = SelectSeq(file, WellFormed)

\* C10: a line whose field count is neither 2 nor 4 is an error and adds
\* no record, and the load goes on: the records are those of the lines of
\* 2 or 4 fields, in file order
C10_MalformedSkipped ==
    mpc = "go_handler" =>
        LET wf == SelectSeq(file, WellFormed) IN
        /\ \A k \in 1..Len(file) :
              ~WellFormed(file[k]) => stringToProxy(file[k]).err
        /\ Len(proxies) = Len(wf)
        /\ \A j \in 1..Len(wf) :
              LET parts == Split(wf[j], ":") IN
              proxies[j] =
                 IF FieldCount(wf[j]) = 2
                 THEN Proxy(parts[1], parts[2], <<>>, <<>>)
                 ELSE Proxy(parts[1], parts[2], parts[3], parts[4])

C10_Witness ==
    /\ mpc = "go_handler"
    /\ Len(file) = 2
    /\ FieldCount(file[1]) = 3
    /\ FieldCount(file[2]) = 2
    /\ Len(proxies) = 1

\* nothing of the test phase has happened: no aggregator, no prober, no
\* outcome, no list entry and no result file
NoTesting ==
    /\ hpc = "idle"
    /\ spawned = 0
    /\ \A p \in Probers : ppc[p] = "none" /\ pout[p] = NoResult
    /\ i = 0
    /\ result = NoResult
    /\ goodProxies = <<>> /\ badProxies = <<>>
    /\ workingFile = <<>> /\ failedFile = <<>>
    /\ written = [working |-> "none", failed |-> "none"]
    /\ ~chClosed

\* the endpoint read at the prompt does not begin with https://
BadEndpoint ==
    /\ endpoint # <<>>
    /\ \/ Len(endpoint) < 8
       \/ \E k \in 1..8 : endpoint[k] # HttpsPrefix[k]

\* C11: after a fatal setup failure (endpoint without https://, dialog
\* cancelled, proxy file unreadable) the driver has exited and no prober
\* was spawned, no outcome sent or received and no result file written
C11_FatalHaltsEarly ==
    (mpc = "exit" \/ BadEndpoint) =>
        /\ mpc = "exit"
        /\ NoTesting

C11_Witness ==
    /\ mpc = "exit"
    /\ Len(file) = 2
    /\ ~BadEndpoint
    /\ NoTesting

\* C12: a failed write of a result list is reported and nothing more: the
\* file gets one pass over the list (a prefix of it, never a second try),
\* the lists in memory stay as they are, the other list is still written
\* and the driver finishes
C12_WriteFailureReported ==
    /\ [][/\ mpc = "write_working" /\ mpc' # mpc =>
               /\ mpc' = "write_failed"
               /\ written'.working \in {"ok", "failed"}
               /\ \E k \in 0..Len(goodProxies) :
                     workingFile' = workingFile \o SubSeq(goodProxies, 1, k)
               /\ written'.working = "ok" =>
                     workingFile' = workingFile \o goodProxies
          /\ mpc = "write_failed" /\ mpc' # mpc =>
               /\ mpc' = "finished"
               /\ written'.failed \in {"ok", "failed"}
               /\ \E k \in 0..Len(badProxies) :
                     failedFile' = failedFile \o SubSeq(badProxies, 1, k)
               /\ written'.failed = "ok" =>
                     failedFile' = failedFile \o badProxies
          /\ mpc \in PastWait =>
               /\ goodProxies' = goodProxies
               /\ badProxies' = badProxies
          /\ mpc # "write_working" => workingFile' = workingFile
          /\ mpc # "write_failed" => failedFile' = failedFile]_vars
    /\ (mpc = "write_working") ~>
          (mpc = "finished" /\ written.working # "none"
                            /\ written.failed # "none")

C12_Witness ==
    /\ mpc = "finished"
    /\ written = [working |-> "failed", failed |-> "ok"]
    /\ Len(goodProxies) = 1 /\ workingFile = <<>>
    /\ Len(badProxies) = 1 /\ failedFile = badProxies

\* C14: the channel is closed only when len(proxies) outcomes were
\* received, and then every prober has completed its send: none is yet to
\* be spawned, none is running, none is at its send, none dropped its outcome
C14_CloseAfterAll ==
    chClosed =>
        /\ i = Len(proxies)
        /\ Consumed = Len(proxies)
        /\ spawned = Len(proxies)
        /\ \A p \in 1..Len(proxies) : ppc[p] = "done"
        /\ ~Dropped

C14_Witness ==
    /\ chClosed
    /\ hpc = "closed"
    /\ Len(proxies) = 2
    /\ mpc = "spawn"

\* C15: a prober whose network call returned, with a response or with a
\* transport error, sends one outcome: its send happens (never zero: the
\* aggregator is still receiving while a prober is at its send, and no
\* prober stays at its send for ever), it is the only send of that prober
\* (never more than one) and the outcome received carries the prober's own
\* record
C15_ExactlyOneOutcome ==
    /\ [][\A p \in Probers :
            /\ (ppc[p] = "do" /\ ppc'[p] # "do") =>
                 /\ ppc'[p] = "send"
                 /\ pout'[p].ProxyUsed = proxies[p]
            /\ (ppc[p] = "send" /\ ppc'[p] # "send") =>
                 /\ ppc'[p] = "done"
                 /\ i' = i + 1
                 /\ result' = pout[p]
                 /\ result'.ProxyUsed = proxies[p]
                 /\ \A q \in Probers \ {p} : ppc'[q] = ppc[q]
            /\ ppc[p] = "done" => ppc'[p] = "done"]_vars
    /\ [](\A p \in Probers :
            ppc[p] = "send" =>
                hpc = "loop" /\ i < Len(proxies) /\ ~chClosed /\ ~crashed)
    /\ <>[](\A p \in Probers : ppc[p] # "send")

C15_Witness ==
    /\ ppc[1] = "done" /\ perr[1] = "nil"
    /\ ppc[2] = "done" /\ perr[2] = "timeout"
    /\ i = 2
    /\ result.ProxyUsed = proxies[1]
    /\ proxies[1] # proxies[2]

\* C16: a prober whose request could not be built ends alone: the process
\* is not ended by it
C16_DropConfined == Dropped => ~crashed

\* the outcomes that were sent: those a prober holds at its send and the
\* one the aggregator received last
SentOutcomes ==
    {pout[p] : p \in {q \in Probers : ppc[q] = "send"}}
    \cup (IF i > 0 THEN {result} ELSE {})

\* C17 as stated: a sent outcome has status -1 when Success is false, and
\* a status in 100..599 when Success is true
C17_StatusRange ==
    \A r \in SentOutcomes :
        /\ ~r.Success => r.StatusCode = -1
        /\ r.Success => (r.StatusCode >= 100 /\ r.StatusCode <= 599)

\* C17 as amended: a sent outcome has status -1 when Success is false, and
\* when Success is true the status the client returned, a three-digit
\* value that is never -1 and need not lie in 100..599
C17_StatusSentinel ==
    \A r \in SentOutcomes :
        /\ ~r.Success => r.StatusCode = -1
        /\ r.Success =>
             /\ r.StatusCode \in StatusCodes
             /\ r.StatusCode >= 0 /\ r.StatusCode <= 999
             /\ r.StatusCode # -1

C17_Witness ==
    /\ i = 1
    /\ result.Success /\ result.StatusCode = 999
    /\ \E p \in Probers :
          ppc[p] = "send" /\ ~pout[p].Success /\ pout[p].StatusCode = -1

\* C18: every loaded record has a username and a password, or neither
C18_CredentialsPaired ==
    mpc = "go_handler" =>
        \A j \in 1..Len(proxies) :
            (proxies[j].User = <<>>) <=> (proxies[j].Pass = <<>>)

\* C19: each list changes only by a new entry at its end, the raw form of
\* the outcome just received, so each list is in the order of receipt and
\* is never rearranged afterwards, whatever the order of dispatch
C19_CompletionOrder ==
    [][/\ \/ goodProxies' = goodProxies
          \/ /\ i' = i + 1
             /\ goodProxies' =
                   Append(goodProxies, rawString(result'.ProxyUsed))
       /\ \/ badProxies' = badProxies
          \/ /\ i' = i + 1
             /\ badProxies' =
                   Append(badProxies, rawString(result'.ProxyUsed))
       /\ i' = i + 1 =>
             Len(goodProxies') + Len(badProxies')
               = Len(goodProxies) + Len(badProxies) + 1]_vars

C19_Witness ==
    /\ hpc = "done"
    /\ Len(proxies) = 2
    /\ rawString(proxies[1]) # rawString(proxies[2])
    /\ goodProxies = <<rawString(proxies[2]), rawString(proxies[1])>>
    /\ mpc = "finished"
    /\ workingFile = goodProxies

\* C20: with no record loaded no prober exists and nothing is received;
\* the aggregator closes the channel and signals, and the driver passes its
\* wait and finishes with both lists empty
C20_EmptyList ==
    /\ [](/\ mpc \in {"go_handler", "spawn", "wait"} \cup PastWait
          /\ proxies = <<>>
          => /\ spawned = 0
             /\ \A p \in Probers : ppc[p] = "none"
             /\ i = 0
             /\ goodProxies = <<>> /\ badProxies = <<>>
             /\ ~crashed)
    /\ (mpc = "go_handler" /\ proxies = <<>>) ~>
          (/\ mpc = "finished"
           /\ hpc = "done"
           /\ chClosed
           /\ wg = 0
           /\ i = 0
           /\ goodProxies = <<>> /\ badProxies = <<>>)

C20_Witness ==
    /\ mpc = "finished"
    /\ file = << <<"1">>, <<"1">> >>
    /\ proxies = <<>>
    /\ chClosed
    /\ i = 0
    /\ goodProxies = <<>> /\ badProxies = <<>>

====
